---------------------------- MODULE Spec2Model ----------------------------
(***************************************************************************)
(* Model of upload_to_server.py: the POST /upload handler (upload_files),  *)
(* the storage directory it writes to and the event loop(s) that run it.   *)
(*                                                                         *)
(* Strings are sequences of one-character strings, so that Path(..).name,  *)
(* .stem, .suffix, os.path.join and the f-string of the collision loop are *)
(* computed character by character (POSIX flavour of pathlib / os.path).   *)
(* The filesystem is a tree of regular files and directories: a function   *)
(* from locations (sequences of components below the root) to entries.     *)
(*                                                                         *)
(* Spec is the documented launch (one process, one event loop) with        *)
(* requests that may overlap; SpecNames is the same launch with one        *)
(* payload of any filename; SpecDeploy lets several worker processes       *)
(* share the storage directory.                                            *)
(***************************************************************************)
EXTENDS Integers, Sequences, FiniteSets, TLC

\* ------------------------------------------------------------------ bounds
MaxFiles == 3      \* payloads per behaviour of Spec, all requests together
MaxLen == 4        \* length of a client filename in SpecNames
MaxWorkers == 2    \* worker processes (event loops) in SpecDeploy
MaxRace == 2       \* payloads per behaviour of SpecDeploy

\* a request carries at least one payload (File(...) is required)
Reqs == 1..MaxFiles
Workers == 1..MaxWorkers

\* ------------------------------------------------------------- characters
SEP == "/"
DOT == "."
DigitChars == <<"0", "1", "2", "3", "4", "5", "6", "7", "8", "9">>

\* str(n) for n >= 0, as the f-string formats the counter
RECURSIVE Str(_)
Str(n) == IF n < 10 THEN <<DigitChars[n + 1]>>
          ELSE Str(n \div 10) \o <<DigitChars[(n % 10) + 1]>>

\* s.split("/")
RECURSIVE Split(_)
Split(s) ==
    IF \A i \in 1..Len(s) : s[i] # SEP THEN <<s>>
    ELSE LET i == CHOOSE k \in 1..Len(s) :
                      s[k] = SEP /\ \A j \in 1..(k - 1) : s[j] # SEP
         IN <<SubSeq(s, 1, i - 1)>> \o Split(SubSeq(s, i + 1, Len(s)))

\* pathlib's parsed parts of a relative tail: empty and "." components dropped
RECURSIVE DropDots(_)
DropDots(cs) ==
    IF cs = <<>> THEN <<>>
    ELSE IF Head(cs) = <<>> \/ Head(cs) = <<DOT>> THEN DropDots(Tail(cs))
    ELSE <<Head(cs)>> \o DropDots(Tail(cs))

\* Path(s).name
PathName(s) ==
    LET parts == DropDots(Split(s))
    IN IF parts = <<>> THEN <<>> ELSE parts[Len(parts)]

\* name.rfind("."), 1-based; 0 when there is no dot
RFindDot(name) ==
    IF \A i \in 1..Len(name) : name[i] # DOT THEN 0
    ELSE CHOOSE k \in 1..Len(name) :
             name[k] = DOT /\ \A j \in (k + 1)..Len(name) : name[j] # DOT

\* Path(name).suffix: from the last dot, unless it is the first or last character
PathSuffix(name) ==
    LET k == RFindDot(name)
    IN IF 1 < k /\ k < Len(name) THEN SubSeq(name, k, Len(name)) ELSE <<>>

\* Path(name).stem
PathStem(name) ==
    LET k == RFindDot(name)
    IN IF 1 < k /\ k < Len(name) THEN SubSeq(name, 1, k - 1) ELSE name

\* os.path.join(a, b)
PathJoin(a, b) ==
    IF b # <<>> /\ b[1] = SEP THEN b
    ELSE IF a = <<>> \/ a[Len(a)] = SEP THEN a \o b
    ELSE a \o <<SEP>> \o b

\* mutant: the number is appended after the extension
NumberedName_afterExt(stem, n, ext) == stem \o ext \o <<"_">> \o Str(n)

\* f"{original_name}_{counter}{extension}"
NumberedName(stem, n, ext) == stem \o <<"_">> \o Str(n) \o ext

\* --------------------------------------------------------- configuration
UPLOAD_DIR == <<"u", "p", "l", "o", "a", "d", "s">>

\* the server's working directory and the storage directory, as locations
Cwd == << <<"s", "r", "v">> >>
UploadLoc == Cwd \o <<UPLOAD_DIR>>

DirEntry == [kind |-> "dir"]
FileEntry(d) == [kind |-> "file", data |-> d]

\* mutant: the client filename is used as it came
SanitizeFilename_raw(filename) == filename

\* mutant: os.path.basename, the text after the last separator
SanitizeFilename_basename(filename) == Split(filename)[Len(Split(filename))]

\* the sanitising step of the handler: the base name the handler keeps
SanitizeFilename(filename) == PathName(filename)

\* ------------------------------------------------------------ filesystem
IsDir(f, loc) == loc \in DOMAIN f /\ f[loc].kind = "dir"

Parent(loc) == IF loc = <<>> THEN <<>> ELSE SubSeq(loc, 1, Len(loc) - 1)

RECURSIVE Walk(_, _, _)
Walk(f, loc, comps) ==
    IF comps = <<>> THEN [ok |-> TRUE, loc |-> loc]
    ELSE IF ~IsDir(f, loc) THEN [ok |-> FALSE, loc |-> loc]
    ELSE LET c == Head(comps)
             nxt == IF c = <<>> \/ c = <<DOT>> THEN loc
                    ELSE IF c = <<DOT, DOT>> THEN Parent(loc)
                    ELSE Append(loc, c)
         IN Walk(f, nxt, Tail(comps))

\* the location a path string names (the last component may not exist yet)
Resolve(f, path) ==
    IF path = <<>> THEN [ok |-> FALSE, loc |-> <<>>]
    ELSE Walk(f, IF path[1] = SEP THEN <<>> ELSE Cwd, Split(path))

\* mutant: os.path.isfile, a directory is no collision
PathExists_isfile(f, path) ==
    LET r == Resolve(f, path)
    IN r.ok /\ r.loc \in DOMAIN f /\ f[r.loc].kind = "file"

\* mutant: the existence test never sees a collision
PathExists_never(f, path) == FALSE

\* os.path.exists(path)
PathExists(f, path) ==
    LET r == Resolve(f, path) IN r.ok /\ r.loc \in DOMAIN f

\* open(path, "wb") can succeed: the path resolves and is not a directory
CanOpenWb(f, path) ==
    LET r == Resolve(f, path)
    IN r.ok /\ r.loc # <<>> /\ IsDir(f, Parent(r.loc)) /\ ~IsDir(f, r.loc)

\* the filesystem after open(path, "wb"): the file created or truncated
OpenWb(f, path) ==
    LET loc == Resolve(f, path).loc
    IN [l \in DOMAIN f \cup {loc} |-> IF l = loc THEN FileEntry(<<>>) ELSE f[l]]

\* the filesystem after the bytes d are written through a handle on loc
WriteAll(f, loc, d) == [f EXCEPT ![loc] = FileEntry(d)]

\* GET /uploads/<name> of the static mount: the bytes, or not found
GetUploads(f, name) ==
    LET loc == Append(UploadLoc, name)
    IN IF loc \in DOMAIN f /\ f[loc].kind = "file"
       THEN [status |-> 200, body |-> f[loc].data]
       ELSE [status |-> 404, body |-> <<>>]

\* the names of the entries of the storage directory
Listing(f) == {loc[Len(loc)] : loc \in {l \in DOMAIN f : Len(l) = Len(UploadLoc) + 1
                                          /\ Parent(l) = UploadLoc}}


\* ---------------------------------------------------------------- inputs
X_T == <<"x", ".", "t">>
X_1_T == <<"x", "_", "1", ".", "t">>
X_2_T == <<"x", "_", "2", ".", "t">>

\* client filenames of the requests of Spec
ClientNames == {X_T, X_1_T}

\* client filenames of the requests of SpecDeploy
DeployNames == {X_T}

\* client filenames of SpecNames: every string of at most MaxLen characters
Alphabet == {SEP, DOT, "x", "t"}
AllNames == UNION {[1..n -> Alphabet] : n \in 0..MaxLen}

\* the bytes of the idx-th payload of request r (opaque to the handler), and
\* what a copy that fails midway leaves behind
Data(r, i) == <<r, i>>
Partial(r, i) == <<r>>
OldData == <<0>>

\* what the storage directory may hold when the server starts
SeedDirs ==
    { {},
      {<<X_T, "file">>},
      {<<X_T, "dir">>},
      {<<X_1_T, "file">>},
      {<<X_T, "file">>, <<X_1_T, "file">>},
      {<<X_T, "file">>, <<X_2_T, "file">>},
      {<<X_T, "file">>, <<X_1_T, "dir">>, <<X_2_T, "file">>},
      {<<<<"x">>, "file">>, <<<<"_", "1">>, "file">>, <<<<DOT, DOT, "_", "1">>, "file">>} }

\* what it may hold when the server of Spec starts
SpecSeeds ==
    { {},
      {<<X_T, "file">>, <<X_2_T, "file">>},
      {<<X_T, "dir">>} }

\* what it may hold when the servers of SpecDeploy start
DeploySeeds == { {}, {<<X_T, "file">>} }

\* the filesystem at startup: os.makedirs(UPLOAD_DIR, exist_ok=True) has run
StartFs(seed) ==
    LET locs == {<<>>, Cwd, UploadLoc} \cup {Append(UploadLoc, e[1]) : e \in seed}
    IN [l \in locs |->
          IF Len(l) <= Len(UploadLoc) THEN DirEntry
          ELSE LET e == CHOOSE e \in seed : e[1] = l[Len(l)]
               IN IF e[2] = "dir" THEN DirEntry ELSE FileEntry(OldData)]

Batches(names, n) == UNION {[1..k -> [filename : names]] : k \in 1..n}

\* ----------------------------------------------------------------- state
VARIABLES
    fs,              \* the filesystem
    fs0,             \* the filesystem at startup (never changes)
    nworkers,        \* worker processes serving the app, one event loop each
    files,           \* files[r]: the payloads of request r, in order
    pc,              \* pc[r]: where the handler of request r stands
    loopOf,          \* loopOf[r]: the worker that accepted request r
    running,         \* running[w]: the request whose handler holds loop w, or 0
    idx,             \* idx[r]: the payload the for loop is at (1-based)
    safe_filename, file_path, counter, original_name, extension,
    saved_files,     \* the handler's locals, per request
    handle,          \* handle[r]: the location `buffer` is open on
    response,        \* response[r]: the HTTP response of request r
    log              \* history: every successful open(file_path, "wb")

vars == <<fs, fs0, nworkers, files, pc, loopOf, running, idx, safe_filename,
          file_path, counter, original_name, extension, saved_files, handle,
          response, log>>

locals == <<idx, safe_filename, file_path, counter, original_name, extension,
            saved_files, handle>>

NoResponse == [status |-> 0]
ErrorResponse == [status |-> 500]
OkResponse(names) == [status |-> 200, filenames |-> names]

\* mutant: the open is awaited (an asynchronous file library)
AwaitPoints_open == {"open"}

\* the statements of the handler body after which the coroutine yields to its
\* event loop: the body has no await, so none
AwaitPoints == {}

InitCommon(seeds) ==
    /\ \E seed \in seeds : fs = StartFs(seed)
    /\ fs0 = fs
    /\ files = [r \in Reqs |-> <<>>]
    /\ pc = [r \in Reqs |-> "idle"]
    /\ loopOf = [r \in Reqs |-> 0]
    /\ running = [w \in Workers |-> 0]
    /\ idx = [r \in Reqs |-> 0]
    /\ safe_filename = [r \in Reqs |-> <<>>]
    /\ file_path = [r \in Reqs |-> <<>>]
    /\ counter = [r \in Reqs |-> 0]
    /\ original_name = [r \in Reqs |-> <<>>]
    /\ extension = [r \in Reqs |-> <<>>]
    /\ saved_files = [r \in Reqs |-> <<>>]
    /\ handle = [r \in Reqs |-> <<>>]
    /\ response = [r \in Reqs |-> NoResponse]
    /\ log = <<>>

\* the documented launch: uvicorn upload_to_server:app, one process
Init == InitCommon(SpecSeeds) /\ nworkers = 1

\* the documented launch, any of the seed directories
InitNames == InitCommon(SeedDirs) /\ nworkers = 1

\* any number of worker processes (uvicorn --workers n)
InitDeploy == InitCommon(DeploySeeds) /\ nworkers \in Workers

Submitted == {r \in Reqs : pc[r] # "idle"}

RECURSIVE SumLen(_)
SumLen(S) == IF S = {} THEN 0
             ELSE LET r == CHOOSE x \in S : TRUE
                  IN Len(files[r]) + SumLen(S \ {r})

\* mutant: an exception in the handler takes the loop down with it
Yields_noRaise(p) == p = "done" \/ p \in AwaitPoints

\* the loop is handed back when the coroutine returns, raises or awaits
Yields(p) == p \in {"done", "failed"} \/ p \in AwaitPoints

\* mutant: def instead of async def, every request runs on a thread of its own
Holds_threadpool(r) == loopOf[r] # 0

\* the handler of r is the coroutine its event loop is running
Holds(r) == loopOf[r] # 0 /\ running[loopOf[r]] = r

Release(r, p) ==
    running' = IF Yields(p) THEN [running EXCEPT ![loopOf[r]] = 0] ELSE running

\* -------------------------------------------------------------- actions
\* POST /upload arrives at worker w; the framework parses the multipart body
\* into the list `files` before the handler is called
Submit(r, batch, w, cap) ==
    /\ pc[r] = "idle"
    /\ \A q \in 1..(r - 1) : pc[q] # "idle"
    /\ w \in 1..nworkers
    /\ SumLen(Submitted) + Len(batch) <= cap
    /\ files' = [files EXCEPT ![r] = batch]
    /\ loopOf' = [loopOf EXCEPT ![r] = w]
    /\ pc' = [pc EXCEPT ![r] = "start"]
    /\ UNCHANGED <<fs, fs0, nworkers, running, locals, response, log>>

\* an idle event loop picks a coroutine that is ready to run
Schedule(r) ==
    /\ pc[r] \notin {"idle", "done", "failed"}
    /\ running[loopOf[r]] = 0
    /\ running' = [running EXCEPT ![loopOf[r]] = r]
    /\ UNCHANGED <<fs, fs0, nworkers, files, pc, loopOf, locals, response, log>>

\* saved_files = []
Begin(r) ==
    /\ pc[r] = "start" /\ Holds(r)
    /\ saved_files' = [saved_files EXCEPT ![r] = <<>>]
    /\ idx' = [idx EXCEPT ![r] = 1]
    /\ pc' = [pc EXCEPT ![r] = "for"]
    /\ Release(r, "for")
    /\ UNCHANGED <<fs, fs0, nworkers, files, loopOf, safe_filename, file_path,
                   counter, original_name, extension, handle, response, log>>

\* for file in files: the sanitised name, the first candidate path, the stem
\* and the extension
Sanitize(r) ==
    /\ pc[r] = "for" /\ Holds(r)
    /\ idx[r] <= Len(files[r])
    /\ LET name == SanitizeFilename(files[r][idx[r]].filename)
       IN /\ safe_filename' = [safe_filename EXCEPT ![r] = name]
          /\ file_path' = [file_path EXCEPT ![r] = PathJoin(UPLOAD_DIR, name)]
          /\ counter' = [counter EXCEPT ![r] = 1]
          /\ original_name' = [original_name EXCEPT ![r] = PathStem(name)]
          /\ extension' = [extension EXCEPT ![r] = PathSuffix(name)]
    /\ pc' = [pc EXCEPT ![r] = "check"]
    /\ Release(r, "check")
    /\ UNCHANGED <<fs, fs0, nworkers, files, loopOf, idx, saved_files, handle,
                   response, log>>

\* while os.path.exists(file_path): one turn of the loop body
Collide(r) ==
    /\ pc[r] = "check" /\ Holds(r)
    /\ PathExists(fs, file_path[r])
    /\ LET name == NumberedName(original_name[r], counter[r], extension[r])
       IN /\ safe_filename' = [safe_filename EXCEPT ![r] = name]
          /\ file_path' = [file_path EXCEPT ![r] = PathJoin(UPLOAD_DIR, name)]
    /\ counter' = [counter EXCEPT ![r] = counter[r] + 1]
    /\ Release(r, "check")
    /\ UNCHANGED <<fs, fs0, nworkers, files, pc, loopOf, idx, original_name,
                   extension, saved_files, handle, response, log>>

\* while os.path.exists(file_path): the test fails and the loop is left
Free(r) ==
    /\ pc[r] = "check" /\ Holds(r)
    /\ ~PathExists(fs, file_path[r])
    /\ pc' = [pc EXCEPT ![r] = "open"]
    /\ Release(r, "open")
    /\ UNCHANGED <<fs, fs0, nworkers, files, loopOf, locals, response, log>>

\* with open(file_path, "wb") as buffer
Open(r) ==
    /\ pc[r] = "open" /\ Holds(r)
    /\ CanOpenWb(fs, file_path[r])
    /\ LET loc == Resolve(fs, file_path[r]).loc
       IN /\ fs' = OpenWb(fs, file_path[r])
          /\ handle' = [handle EXCEPT ![r] = loc]
          /\ log' = Append(log, [req |-> r, idx |-> idx[r], loc |-> loc,
                                 name |-> safe_filename[r],
                                 existed |-> loc \in DOMAIN fs])
    /\ pc' = [pc EXCEPT ![r] = "copy"]
    /\ Release(r, "copy")
    /\ UNCHANGED <<fs0, nworkers, files, loopOf, idx, safe_filename, file_path,
                   counter, original_name, extension, saved_files, response>>

\* open raises (the path is a directory, permissions, no space): the
\* exception leaves the handler and the framework answers 500
OpenFail(r) ==
    /\ pc[r] = "open" /\ Holds(r)
    /\ pc' = [pc EXCEPT ![r] = "failed"]
    /\ response' = [response EXCEPT ![r] = ErrorResponse]
    /\ Release(r, "failed")
    /\ UNCHANGED <<fs, fs0, nworkers, files, loopOf, locals, log>>

\* mutant: the name the client sent is reported, not the resolved one
SavedName_client(r) == SanitizeFilename(files[r][idx[r]].filename)

\* what is appended to saved_files[r] after the copy
SavedName(r) == safe_filename[r]

\* shutil.copyfileobj(file.file, buffer); saved_files.append(safe_filename)
Copy(r) ==
    /\ pc[r] = "copy" /\ Holds(r)
    /\ fs' = WriteAll(fs, handle[r], Data(r, idx[r]))
    /\ saved_files' = [saved_files EXCEPT ![r] = Append(@, SavedName(r))]
    /\ idx' = [idx EXCEPT ![r] = idx[r] + 1]
    /\ pc' = [pc EXCEPT ![r] = "for"]
    /\ Release(r, "for")
    /\ UNCHANGED <<fs0, nworkers, files, loopOf, safe_filename, file_path,
                   counter, original_name, extension, handle, response, log>>

\* copyfileobj raises midway (no space left): part of the bytes stay on disk
CopyFail(r) ==
    /\ pc[r] = "copy" /\ Holds(r)
    /\ fs' = WriteAll(fs, handle[r], Partial(r, idx[r]))
    /\ pc' = [pc EXCEPT ![r] = "failed"]
    /\ response' = [response EXCEPT ![r] = ErrorResponse]
    /\ Release(r, "failed")
    /\ UNCHANGED <<fs0, nworkers, files, loopOf, locals, log>>

\* return {"filenames": saved_files}
Return(r) ==
    /\ pc[r] = "for" /\ Holds(r)
    /\ idx[r] > Len(files[r])
    /\ response' = [response EXCEPT ![r] = OkResponse(saved_files[r])]
    /\ pc' = [pc EXCEPT ![r] = "done"]
    /\ Release(r, "done")
    /\ UNCHANGED <<fs, fs0, nworkers, files, loopOf, locals, log>>

Handler(r) ==
    \/ Schedule(r)
    \/ Begin(r)
    \/ Sanitize(r)
    \/ Collide(r)
    \/ Free(r)
    \/ Open(r)
    \/ OpenFail(r)
    \/ Copy(r)
    \/ CopyFail(r)
    \/ Return(r)

Next ==
    \/ \E r \in Reqs :
           \E batch \in Batches(ClientNames, MaxFiles) : Submit(r, batch, 1, MaxFiles)
    \/ \E r \in Reqs : Handler(r)

\* requests accepted by any of the workers
NextDeploy ==
    \/ \E r \in Reqs, w \in Workers :
           \E batch \in Batches(DeployNames, MaxRace) : Submit(r, batch, w, MaxRace)
    \/ \E r \in Reqs : Handler(r)

\* one request of one payload, with any client filename
NextNames ==
    \/ \E name \in AllNames : Submit(1, <<[filename |-> name]>>, 1, 1)
    \/ \E r \in Reqs : Handler(r)

\* the documented launch, requests with the filenames of ClientNames
Spec == Init /\ [][Next]_vars

\* the documented launch, one payload with any filename
SpecNames == InitNames /\ [][NextNames]_vars

\* any number of workers
SpecDeploy == InitDeploy /\ [][NextDeploy]_vars


\* ================================================================ claims
HasSep(s) == \E i \in 1..Len(s) : s[i] = SEP

\* <stem>_<n><extension>, as the specification writes the numbered name
Numbered(stem, n, ext) == stem \o <<"_">> \o Str(n) \o ext
ClientName(e) == files[e.req][e.idx].filename
Entries == {log[k] : k \in 1..Len(log)}

\* ------------------------------------------------------------------- C1
\* C1: with one event loop, every payload is opened at a path that did not
\* exist when its write began, no two payloads get the same resolved name, and
\* every written payload adds exactly one entry to the storage directory.
C1_UniqueFreshNames ==
    /\ \A k \in 1..Len(log) : ~log[k].existed
    /\ \A j, k \in 1..Len(log) :
           j # k => log[j].loc # log[k].loc /\ log[j].name # log[k].name
    /\ Cardinality(Listing(fs)) = Cardinality(Listing(fs0)) + Len(log)
    /\ Cardinality(DOMAIN fs) = Cardinality(DOMAIN fs0) + Len(log)

\* two payloads of different requests and one batch, all with the same client
\* filename, have been written
C1_Witness ==
    \E j, k, m \in 1..Len(log) :
        /\ j < k /\ k < m
        /\ log[j].req # log[k].req /\ log[k].req = log[m].req
        /\ ClientName(log[j]) = ClientName(log[k])
        /\ ClientName(log[k]) = ClientName(log[m])

\* ------------------------------------------------------------------- C2
XStem == <<"x">>
XExt == <<DOT, "t">>

\* the names x_<n>.t that can occur within the bounds
XNumbered(f) == {Numbered(XStem, n, XExt) : n \in 1..Cardinality(DOMAIN f)}

\* the storage directory held no entry named x.t or x_<n>.t at startup
NoXAtStart == Listing(fs0) \cap ({X_T} \cup XNumbered(fs)) = {}

\* the written payloads whose client filename is x.t, in the order written
RECURSIVE XUploads(_)
XUploads(k) ==
    IF k = 0 THEN <<>>
    ELSE IF ClientName(log[k]) = X_T THEN Append(XUploads(k - 1), log[k].name)
    ELSE XUploads(k - 1)

\* the k-th of them is x.t, x_1.t, x_2.t, ...
XSequence ==
    LET ups == XUploads(Len(log))
    IN \A k \in 1..Len(ups) :
           ups[k] = IF k = 1 THEN X_T ELSE Numbered(XStem, k - 1, XExt)

\* C2 as stated: from a directory without x.t and x_<n>.t, the k-th upload of
\* a payload named x.t is stored as x.t (k = 1) or x_<k-1>.t (k >= 2).
C2_Original == NoXAtStart => XSequence

\* C2 amended: the same, as long as no payload whose own base name is of the
\* form x_<n>.t has been written; the number always goes between the stem and
\* the extension of the base name.
C2_Amended ==
    (NoXAtStart /\ \A e \in Entries : SanitizeFilename(ClientName(e)) \notin XNumbered(fs))
        => XSequence

\* three uploads of x.t into a directory without x names: x.t, x_1.t, x_2.t
C2_Witness ==
    /\ NoXAtStart
    /\ XUploads(Len(log)) = <<X_T, X_1_T, X_2_T>>
    /\ \A r \in Reqs : pc[r] \in {"idle", "done"}

\* ------------------------------------------------------------------- C3
DirectChild(loc) ==
    /\ Len(loc) = Len(UploadLoc) + 1
    /\ Parent(loc) = UploadLoc
    /\ loc[Len(loc)] \notin {<<>>, <<DOT>>, <<DOT, DOT>>}
    /\ ~HasSep(loc[Len(loc)])

\* C3: whatever the client filename, every path opened for writing is a direct
\* child of the storage directory; nothing is created or changed outside it,
\* below a subdirectory of it, or at the storage directory itself.
C3_DirectChild ==
    /\ \A e \in Entries : DirectChild(e.loc)
    /\ \A l \in DOMAIN fs :
           IF l \in DOMAIN fs0
           THEN fs[l] # fs0[l] => l \in {e.loc : e \in Entries}
           ELSE DirectChild(l)

\* the payload named "x/.." has been written, to uploads/.._1
C3_Witness ==
    \E e \in Entries :
        /\ ClientName(e) = <<"x", SEP, DOT, DOT>>
        /\ e.loc = Append(UploadLoc, <<DOT, DOT, "_", "1">>)
        /\ pc[e.req] = "done"
        /\ fs[e.loc] = FileEntry(Data(e.req, e.idx))

\* ------------------------------------------------------------------- C4
\* the characters from position a on are only separators and "." components
Ignorable(s, a) ==
    \A k \in a..Len(s) :
        /\ s[k] \in {SEP, DOT}
        /\ s[k] = DOT => /\ (k = 1 \/ s[k - 1] = SEP)
                         /\ (k = Len(s) \/ s[k + 1] = SEP)

\* the contiguous pieces of s, and the empty string
Pieces(s) == {<<>>} \cup {SubSeq(s, i, j) : i, j \in 1..Len(s)}

\* b is the final path component of s: the last component that is neither
\* empty nor "." (a trailing "/" or "/." does not count); <<>> if there is none
IsFinalComponent(s, b) ==
    \/ b = <<>> /\ Ignorable(s, 1)
    \/ \E i, j \in 1..Len(s) :
           /\ i <= j /\ b = SubSeq(s, i, j)
           /\ ~HasSep(b) /\ b # <<DOT>>
           /\ i = 1 \/ s[i - 1] = SEP
           /\ Ignorable(s, j + 1)

\* there is an entry called n in the directory (every directory has . and ..)
EntryExists(f, n) == n \in {<<DOT>>, <<DOT, DOT>>} \/ n \in Listing(f)

\* C4 as stated: a client filename with separators is stored under its final
\* path component, nothing else changed.
C4_Original ==
    \A e \in Entries : HasSep(ClientName(e)) => IsFinalComponent(ClientName(e), e.name)

\* C4 amended: the file is stored under the final path component when that is
\* not empty and the directory has no entry of that name, and under a numbered
\* name <stem>_<n><extension> of the final path component otherwise.
C4_Amended ==
    \A e \in Entries :
        HasSep(ClientName(e)) =>
            \E b \in Pieces(ClientName(e)) :
                /\ IsFinalComponent(ClientName(e), b)
                /\ IF b # <<>> /\ ~EntryExists(fs0, b)
                   THEN e.name = b
                   ELSE \E n \in 1..Cardinality(DOMAIN fs) :
                            e.name = Numbered(PathStem(b), n, PathSuffix(b))

\* "../x" has been stored as "x"
C4_Witness ==
    \E e \in Entries :
        /\ ClientName(e) = <<DOT, DOT, SEP, "x">>
        /\ e.name = <<"x">>
        /\ fs[e.loc] = FileEntry(Data(e.req, e.idx))

\* ------------------------------------------------------------------ C10
\* the smallest n >= 1 for which the directory has no entry <stem>_<n><ext>
MinFree(f, b) ==
    LET taken(n) == EntryExists(f, Numbered(PathStem(b), n, PathSuffix(b)))
    IN CHOOSE n \in 1..(Cardinality(Listing(f)) + 1) :
           ~taken(n) /\ \A m \in 1..(n - 1) : taken(m)

\* the base name if the directory has no such entry, else the numbered name
\* with the smallest free number
ResolvedName(f, b) ==
    IF ~EntryExists(f, b) THEN b
    ELSE Numbered(PathStem(b), MinFree(f, b), PathSuffix(b))

\* the requests that have left the collision loop for the payload at hand
PastLoop == {r \in Reqs : pc[r] \in {"open", "copy"}}
BaseName(r) == SanitizeFilename(files[r][idx[r]].filename)

\* the loop makes at most one turn per entry plus one for the first candidate
LoopBounded ==
    \A r \in Reqs : pc[r] \in {"check", "open"} =>
        counter[r] <= Cardinality(Listing(fs)) + 2

\* C10 as stated: the loop ends, and it leaves the base name if the directory
\* has no entry of that name, else <stem>_<n><extension> for the smallest free
\* n >= 1 (gaps are filled; files and directories both count).
C10_Original ==
    /\ LoopBounded
    /\ \A r \in PastLoop : safe_filename[r] = ResolvedName(fs0, BaseName(r))

\* C10 amended: the same for a base name that is not empty; the empty base name
\* (client filenames "", "/", ".") makes the first candidate the storage
\* directory itself, which exists, so the name is _<n> for the smallest free n.
C10_Amended ==
    /\ LoopBounded
    /\ \A r \in PastLoop :
           safe_filename[r] =
               IF BaseName(r) = <<>>
               THEN Numbered(<<>>, MinFree(fs0, <<>>), <<>>)
               ELSE ResolvedName(fs0, BaseName(r))

\* x.t and x_2.t are there, x_1.t is not: the upload of x.t is written as x_1.t
C10_Witness ==
    /\ Listing(fs0) = {X_T, X_2_T}
    /\ \E e \in Entries :
           /\ ClientName(e) = X_T /\ e.name = X_1_T
           /\ fs[e.loc] = FileEntry(Data(e.req, e.idx))

\* ------------------------------------------------------------------- C5
Answered == {r \in Reqs : response[r].status = 200}

\* C5: with one event loop, every name reported in a response is served by
\* GET /uploads/<name> with exactly the bytes of the payload it was reported
\* for, in every later state: no other request changes or truncates it.
C5_RoundTrip ==
    \A r \in Answered :
        \A i \in 1..Len(response[r].filenames) :
            GetUploads(fs, response[r].filenames[i]) =
                [status |-> 200, body |-> Data(r, i)]

\* a request was answered, and afterwards another request with the same client
\* filename has been handled to its end
C5_Witness ==
    \E j, k \in 1..Len(log) :
        /\ j < k /\ log[j].req # log[k].req
        /\ ClientName(log[j]) = ClientName(log[k])
        /\ log[j].req \in Answered /\ log[k].req \in Answered

\* ------------------------------------------------------------------- C6
Failed == {r \in Reqs : pc[r] = "failed"}

\* C6: when the write of the i-th payload fails, the request gets the error
\* response and no filenames list, payloads 1..i-1 stay on disk complete,
\* payloads i+1..N are never written, and the event loop is free again for
\* other requests.
C6_FailureNoRollback ==
    \A r \in Failed :
        /\ response[r] = ErrorResponse
        /\ "filenames" \notin DOMAIN response[r]
        /\ \A i \in 1..(idx[r] - 1) :
               /\ Len(saved_files[r]) >= i
               /\ GetUploads(fs, saved_files[r][i]) =
                      [status |-> 200, body |-> Data(r, i)]
        /\ \A e \in Entries : e.req = r => e.idx <= idx[r]
        /\ \A w \in Workers : running[w] # r

\* the second payload of a request failed, the first is on disk, and a request
\* handled after the failure has been answered
C6_Witness ==
    \E r \in Failed, j, k \in 1..Len(log) :
        /\ idx[r] = 2 /\ Len(files[r]) >= 2
        /\ log[j].req = r /\ j < k
        /\ log[k].req # r /\ log[k].req \in Answered
        /\ \A m \in 1..Len(log) : log[m].req = log[k].req => m > j

\* ------------------------------------------------------------------- C7
\* C7: a request whose N payloads were all written is answered only after the
\* last one is written; the list has N entries and the i-th is the name under
\* which the i-th payload was stored.
C7_BatchOrder ==
    \A r \in Reqs :
        response[r].status = 200 =>
            /\ pc[r] = "done"
            /\ Len(response[r].filenames) = Len(files[r])
            /\ \A i \in 1..Len(files[r]) :
                   \E e \in Entries :
                       /\ e.req = r /\ e.idx = i
                       /\ e.name = response[r].filenames[i]
                       /\ e.loc = Append(UploadLoc, e.name)
                       /\ fs[e.loc] = FileEntry(Data(r, i))

\* a batch of three payloads with one client filename has been answered
C7_Witness ==
    \E r \in Answered :
        /\ Len(files[r]) = 3
        /\ \A i \in 1..3 : files[r][i] = files[r][1]

\* ------------------------------------------------------------------- C9
\* the handler of r has begun and has not returned or raised
InBody(r) == pc[r] \in {"for", "check", "open", "copy"}

\* C9: with one event loop the handler bodies do not interleave: while one
\* request is between its first statement and its return no other request is,
\* and no open ever finds its path taken.
C9_NoInterleaving ==
    /\ \A a, b \in Reqs : InBody(a) /\ InBody(b) => a = b
    /\ \A a \in Reqs : InBody(a) => Holds(a)
    /\ \A e \in Entries : ~e.existed

\* requests overlap: one is between its existence check and its write while
\* two others with the same filename have arrived and wait for the loop
C9_Witness ==
    \E a, b, c \in Reqs :
        /\ b # c
        /\ pc[a] = "open" /\ pc[b] = "start" /\ pc[c] = "start"
        /\ files[a][1] = files[b][1] /\ files[a][1] = files[c][1]

\* ------------------------------------------------------------------- C8
\* a has passed the existence check and has not opened the file yet
InWindow(a) == pc[a] = "open"

\* b has arrived with the filename a is working on and has not checked yet
WaitsFor(b, a) ==
    /\ pc[b] = "start"
    /\ files[b][1] = files[a][idx[a]]

\* both have passed the existence check for one candidate, neither has opened
Racing(a, b) ==
    /\ a # b /\ InWindow(a) /\ InWindow(b)
    /\ file_path[a] = file_path[b]

=============================================================================
